---- MODULE Spec2Model ----
(***************************************************************************)
(* Model of the build/resolve orchestration engine of flyctl               *)
(* (internal/build/imgsrc/resolver.go): Resolver.ResolveReference,         *)
(* Resolver.BuildImage, the build telemetry record and Resolver.finishBuild*)
(*                                                                         *)
(* A session is one invocation of ResolveReference or BuildImage.  The     *)
(* position of the session in the code is pc; the strategies' Run, the     *)
(* remote build-tracking service and the wall clock are the environment,   *)
(* whose answers are drawn from small sets.                                *)
(***************************************************************************)
EXTENDS Integers, Sequences, FiniteSets, TLC

VARIABLES
    pc,          \* position of the session in ResolveReference / BuildImage
    entry,       \* "none", "ResolveReference" or "BuildImage"
    mode,        \* r.dockerFactory.mode: [available, nixpacks]
    reqTag,      \* the Tag of the request the caller passed
    optsTag,     \* opts.Tag, the session's copy of it
    strategies,  \* the candidate list (strategy names, in order)
    idx,         \* index of the current strategy of the range loop
    bld,         \* the *build record (Nil before creation)
    img,         \* local img of the session
    note,        \* local note of the session
    err,         \* local err of the session
    branch,      \* which arm of the loop body the last Run selected
    ret,         \* what the session returned to its caller (Nil while running)
    invoked,     \* history: one entry per call of a strategy's Run
    createCalls, \* history: inputs of gql.ResolverCreateBuild
    finishCalls, \* history: arguments of every call of r.finishBuild
    gqlFinish,   \* history: inputs of gql.ResolverFinishBuild, with its outcome
    first,       \* the previous session of a replayed pair (Nil otherwise)
    att,         \* history: the telemetry calls and clock readings of the
                 \* current attempt
    remote,      \* r.dockerFactory.remote
    hbPc,        \* position of the StartHeartbeat call
    hbRet,       \* what StartHeartbeat returned (Nil while it has not)
    requests,    \* history: the liveness requests issued, with their outcome
    loopPc,      \* position of the background pulse goroutine
    sig,         \* the StopSignal: its channel and its sync.Once
    stopPc,      \* position of each task's call of StopSignal.Stop
    timer,       \* the time.AfterFunc(maxTime) timer
    cancelled,   \* whether the owning context is cancelled
    tickPending, \* whether a tick waits in pulse.C
    ticks,       \* how many ticks the pulse ticker has delivered
    limText,     \* a text handed to limitLogs
    lim,         \* what limitLogs and the record made of limText
    tmr          \* a record on which the timer methods are called, with the
                 \* history of the calls

sessionVars ==
    <<pc, entry, mode, reqTag, optsTag, strategies, idx, bld, img, note, err,
      branch, ret, invoked, createCalls, finishCalls, gqlFinish, first,
      att>>

hbVars ==
    <<remote, hbPc, hbRet, requests, loopPc, sig, stopPc, timer, cancelled,
      tickPending, ticks>>

limVars == <<limText, lim>>

tmVars == <<tmr>>

vars == <<sessionVars, hbVars, limVars, tmVars>>

\* Go's nil (pointer, error); a record, so that it compares with records
Nil == [nil |-> TRUE]

-----------------------------------------------------------------------------
(* Bounds of the model.                                                    *)

\* wall-clock readings (time.Now().UnixMilli()) range over 0..MaxClock
MaxClock == 1
\* how many of the sub-phase timers the strategies of the model drive
MaxPhases == 1
\* how many bytes beyond logLimit the longest text of the model has
MaxOver == 1
\* how many tasks outside the controller call Stop on the handle
MaxCallers == 2
\* how many ticks the pulse ticker delivers
MaxTicks == 2
\* the texts handed to limitLogs are within MaxPad bytes of 0 and of logLimit
MaxPad == 3
\* the clock readings of the timer calls made apart from a session range
\* over 0..MaxTime
MaxTime == 2
\* how many timer calls are made apart from a session
MaxCalls == 3

-----------------------------------------------------------------------------
(* Texts.  A Go string is a sequence of runs [c, n]: the trailing n bytes  *)
(* of the block named c (n repetitions of a filler byte, or the trailing n *)
(* bytes of a literal message).  Adjacent runs never share c.              *)

Lit(s, n) == <<[c |-> s, n |-> n]>>

Empty == <<>>

RECURSIVE TextLen(_)
TextLen(t) == IF t = <<>> THEN 0 ELSE Head(t).n + TextLen(Tail(t))

\* t[len(t)-k:] for 0 <= k <= len(t)
RECURSIVE Suffix(_, _)
Suffix(t, k) ==
    IF k = 0 THEN <<>>
    ELSE LET last == t[Len(t)]
             rest == SubSeq(t, 1, Len(t) - 1)
         IN  IF last.n >= k
             THEN <<[c |-> last.c, n |-> k]>>
             ELSE Suffix(rest, k - last.n) \o <<last>>

logLimit == 4096

\* limitLogs that cuts one byte too many
limitLogs_OffByOne(log) ==
    IF TextLen(log) > logLimit
    THEN Suffix(log, logLimit - 1)
    ELSE log

limitLogs(log) ==
    IF TextLen(log) > logLimit
    THEN Suffix(log, logLimit)
    ELSE log

-----------------------------------------------------------------------------
(* Values the environment can produce.                                     *)

\* error texts a strategy can fail with: a short one, and one of
\* logLimit + MaxOver bytes whose first bytes differ from its tail
ErrTexts ==
    { Lit("e", 1), Lit("h", MaxOver) \o Lit("e", logLimit) }

\* notes a strategy can return
Notes ==
    { Empty, Lit("no match", 8), Lit("m", MaxOver) \o Lit("n", logLimit) }

\* a Go error value: its Error() text
Error(text) == [msg |-> text]

Images ==
    { [ID |-> "img-a", Tag |-> "tag-a", Size |-> 10],
      [ID |-> "img-b", Tag |-> "tag-b", Size |-> 20] }

\* what a strategy's Run can return: (image-or-nil, note, error-or-nil)
RunResults ==
    [img : Images \cup {Nil}, note : Notes,
     err : {Error(t) : t \in ErrTexts} \cup {Nil}]

Clock == 0..MaxClock

ImageRef == Lit("registry/app:v1", 15)

-----------------------------------------------------------------------------
(* The telemetry record (type build).                                      *)

TimingFields ==
    {"BuildAndPushMs", "BuilderInitMs", "BuildMs",
     "ContextBuildMs", "ImageBuildMs", "PushMs"}

\* the sub-phase timers, which the strategy implementations drive
PhaseOrder ==
    <<"BuilderInitMs", "BuildMs", "ContextBuildMs", "ImageBuildMs", "PushMs">>

PhaseFields == {PhaseOrder[k] : k \in 1..(IF MaxPhases < 5 THEN MaxPhases ELSE 5)}

\* &gql.BuildTimingsInput{}: the zero value
ZeroTimings == [f \in TimingFields |-> 0]

\* the "not measured" sentinel in every field
UnmeasuredTimings == [f \in TimingFields |-> -1]

newBuild(buildId, createApiFailed) ==
    [CreateApiFailed |-> createApiFailed,
     BuildId         |-> buildId,
     StrategyResults |-> <<>>,
     StartTimes      |-> ZeroTimings,
     Timings         |-> UnmeasuredTimings]

newFailedBuild == newBuild("", TRUE)

\* ResetTimings that renews the start times only
ResetTimings_KeepsTimings(b) ==
    [b EXCEPT !.StartTimes = ZeroTimings]

\* ResetTimings that renews the start times and the build-and-push timing
\* only
ResetTimings_KeepsSubPhases(b) ==
    [b EXCEPT !.StartTimes = ZeroTimings, !.Timings.BuildAndPushMs = -1]

ResetTimings(b) ==
    [b EXCEPT !.StartTimes = ZeroTimings, !.Timings = UnmeasuredTimings]

\* the six XxxStart methods: b.StartTimes.Xxx = time.Now().UnixMilli()
TimerStart(b, f, now) ==
    [b EXCEPT !.StartTimes[f] = now]

\* TimerFinish that stores the clock reading itself
TimerFinish_Reading(b, f, now) ==
    [b EXCEPT !.Timings[f] = now]

\* the six XxxFinish methods:
\* b.Timings.Xxx = time.Now().UnixMilli() - b.StartTimes.Xxx
TimerFinish(b, f, now) ==
    [b EXCEPT !.Timings[f] = now - b.StartTimes[f]]

BuildAndPushStart(b, now) == TimerStart(b, "BuildAndPushMs", now)

BuildAndPushFinish(b, now) == TimerFinish(b, "BuildAndPushMs", now)

\* finishStrategyCommon that assigns the new record instead of appending it
finishStrategyCommon_Overwrite(b, strategy, failed, e, n) ==
    LET result == IF ~failed THEN "success" ELSE "failed"
        errMsg == IF e # Nil THEN e.msg ELSE Empty
        r == [Strategy |-> strategy,
              Result   |-> result,
              Error    |-> limitLogs(errMsg),
              Note     |-> limitLogs(n)]
    IN  [b EXCEPT !.StrategyResults = <<r>>]

finishStrategyCommon(b, strategy, failed, e, n) ==
    LET result == IF ~failed THEN "success" ELSE "failed"
        errMsg == IF e # Nil THEN e.msg ELSE Empty
        r == [Strategy |-> strategy,
              Result   |-> result,
              Error    |-> limitLogs(errMsg),
              Note     |-> limitLogs(n)]
    IN  [b EXCEPT !.StrategyResults = Append(b.StrategyResults, r)]

\* FinishStatus with the test of failed inverted
FinishStatus_Inverted(failed) == IF failed THEN "completed" ELSE "failed"

\* status of the FinishBuildInput
FinishStatus(failed) == IF ~failed THEN "completed" ELSE "failed"

\* the gql.FinishBuildInput that finishBuild builds
FinishBuildInput(b, failed, logs, image) ==
    [BuildId             |-> b.BuildId,
     Status              |-> FinishStatus(failed),
     Logs                |-> limitLogs(logs),
     StrategiesAttempted |-> b.StrategyResults,
     Timings             |-> b.Timings,
     FinalImage          |-> IF image # Nil
                             THEN [Id |-> image.ID, Tag |-> image.Tag,
                                   SizeBytes |-> image.Size]
                             ELSE Nil]

\* the history of an attempt: the telemetry calls made on the record, the
\* clock readings of the build-and-push start and finish, the sub-phase
\* timers the strategy finished during its Run, and, where the specification
\* asks for it (track), whether an earlier attempt of the session finished
\* any
NoAttempt ==
    [calls |-> <<>>, reads |-> <<>>, phases |-> {}, track |-> FALSE,
     earlier |-> FALSE]

\* the history after the ResetTimings call that opens the attempt after a
NewAttempt(a) ==
    [calls |-> <<"ResetTimings">>, reads |-> <<>>, phases |-> {},
     track |-> a.track,
     earlier |-> a.track /\ (a.earlier \/ a.phases # {})]

\* the history a after the timer call named call read the clock as now
Called(a, call, now) ==
    [a EXCEPT !.calls = Append(@, call), !.reads = Append(@, now)]

-----------------------------------------------------------------------------
(* Candidate lists and messages of the two entry points.                   *)

ResolveStrategies == <<"localImageResolver", "remoteImageResolver">>

\* BuildStrategies that appends the nixpacks builder to the usual candidates
BuildStrategies_NixpacksAdded(m) ==
    IF m.nixpacks
    THEN <<"buildpacksBuilder", "dockerfileBuilder", "builtinBuilder",
           "nixpacksBuilder">>
    ELSE <<"buildpacksBuilder", "dockerfileBuilder", "builtinBuilder">>

BuildStrategies(m) ==
    IF m.nixpacks
    THEN <<"nixpacksBuilder">>
    ELSE <<"buildpacksBuilder", "dockerfileBuilder", "builtinBuilder">>

NoStrategiesMsg == Lit("no strategies resulted in an image", 34)

UnavailableErr ==
    Error(Lit("docker is unavailable to build the deployment image", 51))

\* fmt.Errorf("could not find image %q", opts.ImageRef)
CouldNotFindErr ==
    Error(Lit("could not find image ", 21) \o Lit("quote", 1) \o ImageRef
          \o Lit("quote", 1))

NoDockerfileErr ==
    Error(Lit("app does not have a Dockerfile or buildpacks configured. See https://fly.io/docs/reference/configuration/#the-build-section", 123))

\* the error a session returns when every candidate declined
ExhaustedErr(e) ==
    IF e = "ResolveReference" THEN CouldNotFindErr ELSE NoDockerfileErr

\* NewDeploymentTag(appName, label): a non-empty tag built from the
\* application name, the label and a uniqueness token
NewDeploymentTag(appName, label) ==
    Lit("registry.fly.io/", 16) \o appName \o Lit(":", 1) \o label
    \o Lit("-", 1) \o Lit("ulid", 26)

AppName == Lit("app", 3)

ImageLabel == Lit("deployment", 10)

\* the tags a caller can pass in opts.Tag
Tags == { Empty, Lit("v1", 2) }

\* Branch with the test of err left out: an error falls through
Branch_ErrorFallsThrough(image, e) ==
    IF image # Nil THEN "image" ELSE "declined"

\* the arm of the loop body a Run result selects
Branch(image, e) ==
    IF e # Nil THEN "error"
    ELSE IF image # Nil THEN "image"
    ELSE "declined"

-----------------------------------------------------------------------------
(* Initial state: a constructed Resolver (NewResolver), no session yet.    *)

DockerModes == [available : BOOLEAN, nixpacks : BOOLEAN]

\* the tasks that call StopSignal.Stop: the callers holding the handle, the
\* maximum-lifetime timer and the pulse goroutine (its deferred call)
CallerNames == <<"caller1", "caller2", "caller3", "caller4">>

Callers == {CallerNames[k] : k \in 1..(IF MaxCallers < 4 THEN MaxCallers ELSE 4)}

Tasks == Callers \cup {"timer", "loop"}

\* no StartHeartbeat call yet, on a Resolver whose builder is remote or not
HeartbeatIdle(rem) ==
    /\ remote = rem
    /\ hbPc = "idle"
    /\ hbRet = Nil
    /\ requests = <<>>
    /\ loopPc = "none"
    /\ sig = Nil
    /\ stopPc = [t \in Tasks |-> "idle"]
    /\ timer = "none"
    /\ cancelled = FALSE
    /\ tickPending = FALSE
    /\ ticks = 0

\* no text under test
\* no timer call made apart from a session
TimersIdle == tmr = [stage |-> "none"]

LimIdle ==
    /\ limText = Empty
    /\ lim = [stage |-> "none", out |-> Empty, again |-> Empty,
              rec |-> Nil, logs |-> Empty]

\* no session yet: the variables of a session apart from its history att
NoSession ==
    /\ pc = "idle"
    /\ entry = "none"
    /\ reqTag = Empty
    /\ optsTag = Empty
    /\ strategies = <<>>
    /\ idx = 0
    /\ bld = Nil
    /\ img = Nil
    /\ note = Empty
    /\ err = Nil
    /\ branch = "none"
    /\ ret = Nil
    /\ invoked = <<>>
    /\ createCalls = <<>>
    /\ finishCalls = <<>>
    /\ gqlFinish = <<>>
    /\ first = Nil

SessionIdle == NoSession /\ att = NoAttempt

TrackedIdle == NoSession /\ att = [NoAttempt EXCEPT !.track = TRUE]

\* the session specifications: a Resolver with a local builder, on which no
\* heartbeat is started
Init ==
    /\ SessionIdle
    /\ mode \in DockerModes
    /\ HeartbeatIdle(FALSE)
    /\ LimIdle
    /\ TimersIdle

-----------------------------------------------------------------------------
(* ResolveReference and BuildImage, statement by statement.                *)

\* the tags of the request: any, or in the second session of a replayed
\* pair the tag of the first
RequestTags == IF first # Nil THEN {first.reqTag} ELSE Tags

\* ResolveReference is called: the candidate list is built
CallResolveReference ==
    /\ pc = "idle"
    /\ first # Nil => first.entry = "ResolveReference"
    /\ \E tag \in RequestTags : reqTag' = tag /\ optsTag' = tag
    /\ entry' = "ResolveReference"
    /\ strategies' = ResolveStrategies
    /\ pc' = "create"
    /\ UNCHANGED <<mode, idx, bld, img, note, err, branch, ret, invoked,
                   createCalls, finishCalls, gqlFinish, first, att, hbVars, limVars, tmVars>>

\* BuildImageEntry without the availability gate
BuildImageEntry_NoGate(t) ==
    /\ optsTag' = IF t = Empty
                  THEN NewDeploymentTag(AppName, ImageLabel)
                  ELSE t
    /\ strategies' = BuildStrategies(mode)
    /\ pc' = "create"
    /\ UNCHANGED ret

\* BuildImageEntry that leaves an empty opts.Tag as it is
BuildImageEntry_KeepsTag(t) ==
    IF ~mode.available
    THEN /\ ret' = [img |-> Nil, err |-> UnavailableErr]
         /\ optsTag' = t
         /\ pc' = "done"
         /\ UNCHANGED strategies
    ELSE /\ optsTag' = t
         /\ strategies' = BuildStrategies(mode)
         /\ pc' = "create"
         /\ UNCHANGED ret

\* the statements of BuildImage before createBuild, for request tag t
BuildImageEntry(t) ==
    IF ~mode.available
    THEN /\ ret' = [img |-> Nil, err |-> UnavailableErr]
         /\ optsTag' = t
         /\ pc' = "done"
         /\ UNCHANGED strategies
    ELSE /\ optsTag' = IF t = Empty
                       THEN NewDeploymentTag(AppName, ImageLabel)
                       ELSE t
         /\ strategies' = BuildStrategies(mode)
         /\ pc' = "create"
         /\ UNCHANGED ret

\* BuildImage is called: availability gate, tag, candidate list
CallBuildImage ==
    /\ pc = "idle"
    /\ first # Nil => first.entry = "BuildImage"
    /\ entry' = "BuildImage"
    /\ \E tag \in RequestTags : reqTag' = tag /\ BuildImageEntry(tag)
    /\ UNCHANGED <<mode, idx, bld, img, note, err, branch, invoked,
                   createCalls, finishCalls, gqlFinish, first, att, hbVars, limVars, tmVars>>

\* strategiesAvailable that names the first candidate only
strategiesAvailable_FirstOnly(ss) == SubSeq(ss, 1, 1)

\* the names of all the candidates, in order (createImageBuild, createBuild)
strategiesAvailable(ss) == [k \in 1..Len(ss) |-> ss[k]]

\* createBuildGql that returns nil, err when the remote call fails
createBuildGql_NilOnFailure(ok) ==
    IF ~ok THEN Nil ELSE newBuild("build-1", FALSE)

\* what createBuildGql returns for the outcome of gql.ResolverCreateBuild
createBuildGql(ok) ==
    IF ~ok THEN newFailedBuild ELSE newBuild("build-1", FALSE)

\* bld, err := r.createImageBuild(...) / r.createBuild(...)
CreateBuild ==
    /\ pc = "create"
    /\ \E ok \in BOOLEAN :
          /\ bld' = createBuildGql(ok)
          /\ err' = IF ok THEN Nil ELSE Error(Lit("create build failed", 19))
          /\ createCalls' = Append(createCalls,
                 [StrategiesAvailable |-> strategiesAvailable(strategies),
                  Tag |-> optsTag,
                  ok |-> ok])
    /\ idx' = 1
    /\ pc' = "loop"
    /\ UNCHANGED <<entry, mode, reqTag, optsTag, strategies, img, note, branch, ret,
                   invoked, finishCalls, gqlFinish, first, att, hbVars, limVars, tmVars>>

\* a method call or field access through the record pointer
Deref(b) == b # Nil

\* action A of a statement that goes through the record pointer: a nil
\* pointer panics instead
ViaRecord(A) ==
    IF Deref(bld)
    THEN A
    ELSE /\ pc' = "panic"
         /\ UNCHANGED <<entry, mode, reqTag, optsTag, strategies, idx, bld, img,
                        note, err, branch, ret, invoked, createCalls,
                        finishCalls, gqlFinish, first, att, hbVars, limVars, tmVars>>

\* top of the range loop with a strategy left: bld.ResetTimings()
LoopReset ==
    /\ pc = "loop"
    /\ idx <= Len(strategies)
    /\ ViaRecord(
          /\ bld' = ResetTimings(bld)
          /\ att' = NewAttempt(att)
          /\ pc' = "start"
          /\ UNCHANGED <<entry, mode, reqTag, optsTag, strategies, idx, img, note,
                         err, branch, ret, invoked, createCalls, finishCalls,
                         gqlFinish, first, hbVars, limVars, tmVars>>)

\* bld.BuildAndPushStart()
LoopStart ==
    /\ pc = "start"
    /\ ViaRecord(
          /\ \E now \in Clock :
                /\ bld' = BuildAndPushStart(bld, now)
                /\ att' = Called(att, "BuildAndPushStart", now)
          /\ pc' = "run"
          /\ UNCHANGED <<entry, mode, reqTag, optsTag, strategies, idx, img, note,
                         err, branch, ret, invoked, createCalls, finishCalls,
                         gqlFinish, first, hbVars, limVars, tmVars>>)

\* the timer calls a strategy makes on the record during its Run: none, or
\* the start and the finish of one sub-phase
RunTimers(b, ph, t0, t1) ==
    IF ph = "none" THEN b
    ELSE TimerFinish(TimerStart(b, ph, t0), ph, t1)

\* the results the environment may give the k-th Run of this session: in the
\* second session of a replayed pair, what the first session's k-th Run gave
RunResultsAt(k) ==
    IF first # Nil /\ k <= Len(first.invoked)
    THEN {first.invoked[k].result}
    ELSE RunResults

\* img, note, err = s.Run(ctx, r.dockerFactory, streams, opts, bld)
\* and the choice of the arm (the tests of err and img)
LoopRun ==
    /\ pc = "run"
    /\ \E r \in RunResultsAt(Len(invoked) + 1),
          ph \in PhaseFields \cup {"none"}, t0 \in Clock, t1 \in Clock :
          /\ bld' = RunTimers(bld, ph, t0, t1)
          /\ att' = [att EXCEPT !.calls = Append(@, "Run"),
                                 !.phases = {ph} \ {"none"}]
          /\ img' = r.img
          /\ note' = r.note
          /\ err' = r.err
          /\ branch' = Branch(r.img, r.err)
          /\ invoked' = Append(invoked,
                 [strategy |-> strategies[idx], tag |-> optsTag,
                  result |-> r])
    /\ pc' = "finish"
    /\ UNCHANGED <<entry, mode, reqTag, optsTag, strategies, idx, ret, createCalls,
                   finishCalls, gqlFinish, first, hbVars, limVars, tmVars>>

\* LoopFinish without the BuildAndPushFinish call
LoopFinish_Skipped ==
    /\ pc = "finish"
    /\ pc' = "append"
    /\ UNCHANGED <<entry, mode, reqTag, optsTag, strategies, idx, bld, img,
                   note, err, branch, ret, invoked, createCalls, finishCalls,
                   gqlFinish, first, att, hbVars, limVars, tmVars>>

\* bld.BuildAndPushFinish(), first statement of each of the three arms
LoopFinish ==
    /\ pc = "finish"
    /\ ViaRecord(
          /\ \E now \in Clock :
                /\ bld' = BuildAndPushFinish(bld, now)
                /\ att' = Called(att, "BuildAndPushFinish", now)
          /\ pc' = "append"
          /\ UNCHANGED <<entry, mode, reqTag, optsTag, strategies, idx, img, note,
                         err, branch, ret, invoked, createCalls, finishCalls,
                         gqlFinish, first, hbVars, limVars, tmVars>>)

\* the arguments (failed, err) of FinishStrategy / FinishImageStrategy in
\* the arm br
StrategyFailed(br) == br # "image"

\* StrategyErr that passes nil in the error arm too
StrategyErr_Dropped(br, e) == Nil

StrategyErr(br, e) == IF br = "error" THEN e ELSE Nil

\* AfterStrategy that leaves the loop on a declined strategy too
AfterStrategy_StopsOnDecline(br) == "finalize"

\* AfterStrategy that goes on to the next candidate in every arm
AfterStrategy_AlwaysLoop(br) == "loop"

\* where the arm br goes after its FinishStrategy call
AfterStrategy(br) == IF br = "declined" THEN "loop" ELSE "finalize"

\* bld.FinishStrategy(s, failed, err, note); a declined strategy ends the
\* iteration
LoopAppend ==
    /\ pc = "append"
    /\ ViaRecord(
          /\ bld' = finishStrategyCommon(bld, strategies[idx],
                       StrategyFailed(branch), StrategyErr(branch, err), note)
          /\ att' = [att EXCEPT !.calls = Append(@, "FinishStrategy")]
          /\ pc' = AfterStrategy(branch)
          /\ idx' = IF AfterStrategy(branch) = "loop" THEN idx + 1 ELSE idx
          /\ UNCHANGED <<entry, mode, reqTag, optsTag, strategies, img, note, err,
                         branch, ret, invoked, createCalls, finishCalls,
                         gqlFinish, first, hbVars, limVars, tmVars>>)

\* LoopExit without the finishBuild call after the loop
LoopExit_NoFinalize ==
    /\ pc = "loop"
    /\ idx > Len(strategies)
    /\ branch' = "exhausted"
    /\ pc' = "return"
    /\ UNCHANGED <<entry, mode, reqTag, optsTag, strategies, idx, bld, img,
                   note, err, ret, invoked, createCalls, finishCalls,
                   gqlFinish, first, att, hbVars, limVars, tmVars>>

\* the range loop ends with every candidate declined
LoopExit ==
    /\ pc = "loop"
    /\ idx > Len(strategies)
    /\ branch' = "exhausted"
    /\ pc' = "finalize"
    /\ UNCHANGED <<entry, mode, reqTag, optsTag, strategies, idx, bld, img, note,
                   err, ret, invoked, createCalls, finishCalls, gqlFinish,
                   first, att, hbVars, limVars, tmVars>>

\* FinishArgs without the message of the call after the loop
FinishArgs_NoMessage(br, image, e) ==
    IF br = "error"
    THEN [failed |-> TRUE, logs |-> e.msg, img |-> Nil]
    ELSE IF br = "image"
    THEN [failed |-> FALSE, logs |-> Empty, img |-> image]
    ELSE [failed |-> TRUE, logs |-> Empty, img |-> Nil]

\* the arguments (failed, logs, img) of the finishBuild call of arm br
FinishArgs(br, image, e) ==
    IF br = "error"
    THEN [failed |-> TRUE, logs |-> e.msg, img |-> Nil]
    ELSE IF br = "image"
    THEN [failed |-> FALSE, logs |-> Empty, img |-> image]
    ELSE [failed |-> TRUE, logs |-> NoStrategiesMsg, img |-> Nil]

\* FinishSkipped that never skips the remote call
FinishSkipped_Never(b) == FALSE

\* finishBuild: whether it goes on to the remote call
FinishSkipped(b) == b.CreateApiFailed

\* r.finishBuild(ctx, bld, failed, logs, img); its result is dropped
FinishBuild ==
    /\ pc = "finalize"
    /\ ViaRecord(
          LET a == FinishArgs(branch, img, err) IN
          /\ finishCalls' = Append(finishCalls, a)
          /\ att' = [att EXCEPT !.calls = Append(@, "finishBuild")]
          /\ IF FinishSkipped(bld)
             THEN UNCHANGED gqlFinish
             ELSE \E ok \in BOOLEAN :
                     gqlFinish' = Append(gqlFinish,
                        [input |-> FinishBuildInput(bld, a.failed, a.logs,
                                                    a.img),
                         ok |-> ok])
          /\ pc' = "return"
          /\ UNCHANGED <<entry, mode, reqTag, optsTag, strategies, idx, bld, img,
                         note, err, branch, ret, invoked, createCalls,
                         first, hbVars, limVars, tmVars>>)

\* ReturnValue whose error arm returns img, err instead of nil, err
ReturnValue_KeepsImage(br, image, e) ==
    IF br = "error" THEN [img |-> image, err |-> e]
    ELSE IF br = "image" THEN [img |-> image, err |-> Nil]
    ELSE [img |-> Nil, err |-> ExhaustedErr(entry)]

\* the (img, err) the return statement of arm br gives the caller
ReturnValue(br, image, e) ==
    IF br = "error" THEN [img |-> Nil, err |-> e]
    ELSE IF br = "image" THEN [img |-> image, err |-> Nil]
    ELSE [img |-> Nil, err |-> ExhaustedErr(entry)]

\* Return that gives the caller the error of a failed remote finalize call
Return_FinishError ==
    /\ pc = "return"
    /\ ret' = IF gqlFinish # <<>> /\ ~gqlFinish[1].ok
              THEN [img |-> Nil, err |-> Error(Lit("finish build failed", 19))]
              ELSE ReturnValue(branch, img, err)
    /\ pc' = "done"
    /\ UNCHANGED <<entry, mode, reqTag, optsTag, strategies, idx, bld, img,
                   note, err, branch, invoked, createCalls, finishCalls,
                   gqlFinish, first, att, hbVars, limVars, tmVars>>

\* return img, err
Return ==
    /\ pc = "return"
    /\ ret' = ReturnValue(branch, img, err)
    /\ pc' = "done"
    /\ UNCHANGED <<entry, mode, reqTag, optsTag, strategies, idx, bld, img, note,
                   err, branch, invoked, createCalls, finishCalls, gqlFinish,
                   first, att, hbVars, limVars, tmVars>>

Next ==
    \/ CallResolveReference
    \/ CallBuildImage
    \/ CreateBuild
    \/ LoopReset
    \/ LoopStart
    \/ LoopRun
    \/ LoopFinish
    \/ LoopAppend
    \/ LoopExit
    \/ FinishBuild
    \/ Return

Spec == Init /\ [][Next]_vars

\* the sessions of BuildImage and ResolveReference on an available builder,
\* with the history of what the earlier attempts measured
InitTracked ==
    /\ TrackedIdle
    /\ mode = [available |-> TRUE, nixpacks |-> FALSE]
    /\ HeartbeatIdle(FALSE)
    /\ LimIdle
    /\ TimersIdle

SpecTracked == InitTracked /\ [][Next]_vars

-----------------------------------------------------------------------------
(* A replayed pair: after a session has returned, the caller repeats the   *)
(* same request on the same Resolver, and every strategy answers as it did *)
(* in the first session; the build-tracking service and the clock answer   *)
(* freely.                                                                 *)

Rerun ==
    /\ pc = "done"
    /\ first = Nil
    /\ first' = [entry |-> entry, reqTag |-> reqTag, invoked |-> invoked,
                 ret |-> ret,
                 createOk |-> IF createCalls = <<>> THEN Nil
                              ELSE [ok |-> createCalls[1].ok],
                 finishOk |-> IF gqlFinish = <<>> THEN Nil
                              ELSE [ok |-> gqlFinish[1].ok]]
    /\ pc' = "idle"
    /\ entry' = "none"
    /\ reqTag' = Empty
    /\ optsTag' = Empty
    /\ strategies' = <<>>
    /\ idx' = 0
    /\ bld' = Nil
    /\ img' = Nil
    /\ note' = Empty
    /\ err' = Nil
    /\ branch' = "none"
    /\ ret' = Nil
    /\ invoked' = <<>>
    /\ createCalls' = <<>>
    /\ finishCalls' = <<>>
    /\ gqlFinish' = <<>>
    /\ att' = NoAttempt
    /\ UNCHANGED <<mode, hbVars, limVars, tmVars>>

NextTwin == Next \/ Rerun

SpecTwin == Init /\ [][NextTwin]_vars

-----------------------------------------------------------------------------
(* The heartbeat controller: Resolver.StartHeartbeat, the pulse goroutine  *)
(* it starts, and StopSignal.Stop.                                         *)

Statuses == {200, 202, 404, 500}

\* what client.HTTPClient().Do(req) can give: a transport error or a
\* response with a status
Responses ==
    {[kind |-> "error"]} \cup {[kind |-> "http", status |-> n] : n \in Statuses}

\* RequestOutcomes for a request built without the context
RequestOutcomes_NoContext(ctxDone) == Responses

\* the outcomes of a request built by http.NewRequestWithContext(ctx, ...):
\* once ctx is done, Do fails with the context's error
RequestOutcomes(ctxDone) ==
    IF ctxDone THEN {[kind |-> "error"]} ELSE Responses

\* heartbeat(ctx, client, req): the error it returns for response r
heartbeat(r) ==
    IF r.kind = "error" THEN [type |-> "transport"]
    ELSE IF 200 <= r.status /\ r.status < 300 THEN Nil
    ELSE [type |-> "httpError", StatusCode |-> r.status]

\* FirstProbe that treats every probe failure as "no heartbeat endpoint"
FirstProbe_AllUnsupported(e) ==
    IF e = Nil THEN Nil ELSE [handle |-> Nil, err |-> Nil]

\* what StartHeartbeat returns after the first probe gave error e; Nil when
\* it goes on to the confirmation probe
FirstProbe(e) ==
    IF e = Nil THEN Nil
    ELSE IF e.type = "httpError" /\ e.StatusCode = 404
         THEN [handle |-> Nil, err |-> Nil]
         ELSE [handle |-> Nil, err |-> e]

\* ConfirmAccepted that takes any 2xx status
ConfirmAccepted_Any2xx(r) ==
    r.kind = "http" /\ 200 <= r.status /\ r.status < 300

\* whether the confirmation probe's response starts the loop
ConfirmAccepted(r) == r.kind = "http" /\ r.status = 202

\* StopSignal{Chan: make(chan struct{})}
NewStopSignal ==
    [closes |-> 0, onceDone |-> FALSE, holder |-> "none", closedBy |-> "none"]

\* StartHeartbeat that sets no maximum-lifetime timer
AfterFuncTimer_Missing == "none"

\* time.AfterFunc(maxTime, func() { done.Stop() })
AfterFuncTimer == "armed"

\* a heartbeat specification starts with any builder
InitHeartbeat ==
    /\ SessionIdle
    /\ mode = [available |-> TRUE, nixpacks |-> FALSE]
    /\ \E rem \in BOOLEAN : HeartbeatIdle(rem)
    /\ LimIdle
    /\ TimersIdle

\* Inert that takes every builder for a remote one
Inert_Never(rem) == FALSE

\* if !r.dockerFactory.remote: nothing to keep alive
Inert(rem) == ~rem

\* StartHeartbeat is called: the remote test, the docker client, the URL and
\* the request
HbCall ==
    /\ hbPc = "idle"
    /\ IF Inert(remote)
       THEN /\ hbRet' = [handle |-> Nil, err |-> Nil]
            /\ hbPc' = "returned"
       ELSE \E ok \in BOOLEAN :
               IF ok
               THEN hbPc' = "probe1" /\ UNCHANGED hbRet
               ELSE /\ hbRet' = [handle |-> Nil, err |-> Nil]
                    /\ hbPc' = "returned"
    /\ UNCHANGED <<sessionVars, limVars, tmVars, remote, requests, loopPc, sig,
                   stopPc, timer, cancelled, tickPending, ticks>>

\* err = heartbeat(ctx, dockerClient, heartbeatReq) and the tests of err
HbFirstProbe ==
    /\ hbPc = "probe1"
    /\ \E r \in RequestOutcomes(cancelled) :
          /\ requests' = Append(requests, [kind |-> "first", resp |-> r])
          /\ IF FirstProbe(heartbeat(r)) = Nil
             THEN hbPc' = "probe2" /\ UNCHANGED hbRet
             ELSE /\ hbRet' = FirstProbe(heartbeat(r))
                  /\ hbPc' = "returned"
    /\ UNCHANGED <<sessionVars, limVars, tmVars, remote, loopPc, sig, stopPc, timer,
                   cancelled, tickPending, ticks>>

\* the second request, and on "accepted" the stop signal, the timer and the
\* go statement
HbConfirmProbe ==
    /\ hbPc = "probe2"
    /\ \E r \in RequestOutcomes(cancelled) :
          /\ requests' = Append(requests, [kind |-> "confirm", resp |-> r])
          /\ IF ConfirmAccepted(r)
             THEN /\ sig' = NewStopSignal
                  /\ timer' = AfterFuncTimer
                  /\ loopPc' = "select"
                  /\ hbRet' = [handle |-> [ptr |-> "done"], err |-> Nil]
             ELSE /\ hbRet' = [handle |-> Nil, err |-> Nil]
                  /\ UNCHANGED <<sig, timer, loopPc>>
    /\ hbPc' = "returned"
    /\ UNCHANGED <<sessionVars, limVars, tmVars, remote, stopPc, cancelled,
                   tickPending, ticks>>

\* the owning context is cancelled
Cancel ==
    /\ hbPc # "idle"
    /\ ~cancelled
    /\ cancelled' = TRUE
    /\ UNCHANGED <<sessionVars, limVars, tmVars, remote, hbPc, hbRet, requests,
                   loopPc, sig, stopPc, timer, tickPending, ticks>>

\* the maximum lifetime has passed: the timer's function starts
TimerFire ==
    /\ timer = "armed"
    /\ timer' = "fired"
    /\ UNCHANGED <<sessionVars, limVars, tmVars, remote, hbPc, hbRet, requests,
                   loopPc, sig, stopPc, cancelled, tickPending, ticks>>

\* whether task t is at a call of Stop
AtStop(t) ==
    IF t = "timer" THEN timer = "fired"
    ELSE IF t = "loop" THEN loopPc = "deferred"
    ELSE hbPc = "returned"

\* the receiver of task t's Stop call is nil
NilReceiver(t) == t \in Callers /\ hbRet.handle = Nil

\* Once.Do that runs f whether or not it has run
OnceShouldRun_Always(s) == TRUE

\* sync.Once, under its mutex: f has not run yet
OnceShouldRun(s) == ~s.onceDone

\* Stop is entered: the nil test, and the fast path of s.once.Do
StopCall(t) ==
    /\ stopPc[t] = "idle"
    /\ AtStop(t)
    /\ stopPc' = [stopPc EXCEPT ![t] =
                     IF NilReceiver(t) THEN "done"
                     ELSE IF sig.onceDone THEN "done"
                     ELSE "slow"]
    /\ UNCHANGED <<sessionVars, limVars, tmVars, remote, hbPc, hbRet, requests,
                   loopPc, sig, timer, cancelled, tickPending, ticks>>

\* s.once.Do: the mutex is taken
StopLock(t) ==
    /\ stopPc[t] = "slow"
    /\ sig.holder = "none"
    /\ sig' = [sig EXCEPT !.holder = t]
    /\ stopPc' = [stopPc EXCEPT ![t] = "locked"]
    /\ UNCHANGED <<sessionVars, limVars, tmVars, remote, hbPc, hbRet, requests,
                   loopPc, timer, cancelled, tickPending, ticks>>

\* s.once.Do under the mutex: close(s.Chan) if f has not run; closing a
\* closed channel panics
StopClose(t) ==
    /\ stopPc[t] = "locked"
    /\ IF OnceShouldRun(sig)
       THEN /\ sig' = [sig EXCEPT !.closes = @ + 1,
                                  !.closedBy = IF @ = "none" THEN t ELSE @,
                                  !.onceDone = TRUE,
                                  !.holder = "none"]
            /\ stopPc' = [stopPc EXCEPT ![t] =
                             IF sig.closes >= 1 THEN "panic" ELSE "done"]
       ELSE /\ sig' = [sig EXCEPT !.holder = "none"]
            /\ stopPc' = [stopPc EXCEPT ![t] = "done"]
    /\ UNCHANGED <<sessionVars, limVars, tmVars, remote, hbPc, hbRet, requests,
                   loopPc, timer, cancelled, tickPending, ticks>>

\* the ticker delivers a tick into pulse.C
PulseTick ==
    /\ loopPc = "select"
    /\ ~tickPending
    /\ ticks < MaxTicks
    /\ tickPending' = TRUE
    /\ ticks' = ticks + 1
    /\ UNCHANGED <<sessionVars, limVars, tmVars, remote, hbPc, hbRet, requests,
                   loopPc, sig, stopPc, timer, cancelled>>

\* AfterPulse that returns from the goroutine when the pulse failed
AfterPulse_StopsOnError(e) == IF e # Nil THEN "deferred" ELSE "select"

\* where the loop goes after a pulse that gave error e: the error is logged
\* and the for loop goes round
AfterPulse(e) == "select"

\* case <-pulse.C: one heartbeat request
PulseSend ==
    /\ loopPc = "select"
    /\ tickPending
    /\ \E r \in RequestOutcomes(cancelled) :
          /\ requests' = Append(requests,
                [kind |-> "pulse", ctxDone |-> cancelled,
                 failed |-> heartbeat(r) # Nil])
          /\ loopPc' = AfterPulse(heartbeat(r))
    /\ tickPending' = FALSE
    /\ UNCHANGED <<sessionVars, limVars, tmVars, remote, hbPc, hbRet, sig,
                   stopPc, timer, cancelled, ticks>>

\* case <-done.Chan: return
PulseSeeStop ==
    /\ loopPc = "select"
    /\ sig.closes >= 1
    /\ loopPc' = "deferred"
    /\ UNCHANGED <<sessionVars, limVars, tmVars, remote, hbPc, hbRet, requests, sig,
                   stopPc, timer, cancelled, tickPending, ticks>>

\* case <-ctx.Done(): return
PulseSeeCancel ==
    /\ loopPc = "select"
    /\ cancelled
    /\ loopPc' = "deferred"
    /\ UNCHANGED <<sessionVars, limVars, tmVars, remote, hbPc, hbRet, requests, sig,
                   stopPc, timer, cancelled, tickPending, ticks>>

\* PulseEnd of a goroutine that does not defer done.Stop()
PulseEnd_NoDeferredStop ==
    /\ loopPc = "deferred"
    /\ loopPc' = "exited"
    /\ UNCHANGED <<sessionVars, limVars, tmVars, remote, hbPc, hbRet, requests,
                   sig, stopPc, timer, cancelled, tickPending, ticks>>

\* the deferred calls have run (done.Stop(), pulse.Stop(), client.Close()):
\* the goroutine ends
PulseEnd ==
    /\ loopPc = "deferred"
    /\ stopPc["loop"] = "done"
    /\ loopPc' = "exited"
    /\ UNCHANGED <<sessionVars, limVars, tmVars, remote, hbPc, hbRet, requests, sig,
                   stopPc, timer, cancelled, tickPending, ticks>>

NextHeartbeat ==
    \/ HbCall
    \/ HbFirstProbe
    \/ HbConfirmProbe
    \/ Cancel
    \/ TimerFire
    \/ \E t \in Tasks : StopCall(t)
    \/ \E t \in Tasks : StopLock(t)
    \/ \E t \in Tasks : StopClose(t)
    \/ PulseTick
    \/ PulseSend
    \/ PulseSeeStop
    \/ PulseSeeCancel
    \/ PulseEnd

SpecHeartbeat == InitHeartbeat /\ [][NextHeartbeat]_vars

\* the Go scheduler runs every goroutine that can run, a timer that is due
\* fires, and a select does not pass over a ready case forever; the callers
\* are free never to call Stop, and the context never to be cancelled
HeartbeatFairness ==
    /\ WF_vars(TimerFire)
    /\ WF_vars(StopCall("timer"))
    /\ WF_vars(StopCall("loop"))
    /\ \A t \in Tasks : WF_vars(StopLock(t)) /\ WF_vars(StopClose(t))
    /\ WF_vars(PulseSeeStop)
    /\ WF_vars(PulseSeeCancel)
    /\ WF_vars(PulseEnd)

SpecHeartbeatFair == SpecHeartbeat /\ HeartbeatFairness

-----------------------------------------------------------------------------
(* limitLogs on its own: a text is truncated, truncated again, stored as   *)
(* the error and note of an attempt record, and sent as the logs of a      *)
(* finalize payload.                                                       *)

\* the text of a after "h" bytes followed by b "e" bytes
TwoRuns(a, b) ==
    (IF a = 0 THEN Empty ELSE Lit("h", a)) \o
    (IF b = 0 THEN Empty ELSE Lit("e", b))

\* texts around the empty text and around the limit
LimTexts ==
    { TwoRuns(a, b) :
        a \in 0..MaxPad,
        b \in (0..MaxPad) \cup ((logLimit - MaxPad)..(logLimit + MaxPad)) }

InitLimit ==
    /\ SessionIdle
    /\ mode = [available |-> TRUE, nixpacks |-> FALSE]
    /\ HeartbeatIdle(FALSE)
    /\ limText \in LimTexts
    /\ lim = [stage |-> "input", out |-> Empty, again |-> Empty,
              rec |-> Nil, logs |-> Empty]
    /\ TimersIdle

\* limitLogs(text)
LimTruncate ==
    /\ lim.stage = "input"
    /\ lim' = [lim EXCEPT !.stage = "limited", !.out = limitLogs(limText)]
    /\ UNCHANGED <<sessionVars, hbVars, limText, tmVars>>

\* limitLogs(limitLogs(text))
LimAgain ==
    /\ lim.stage = "limited"
    /\ lim' = [lim EXCEPT !.stage = "twice", !.again = limitLogs(lim.out)]
    /\ UNCHANGED <<sessionVars, hbVars, limText, tmVars>>

\* an attempt that failed with the text as its error and as its note
LimStore ==
    /\ lim.stage = "twice"
    /\ lim' = [lim EXCEPT
                 !.stage = "stored",
                 !.rec = finishStrategyCommon(newBuild("build", FALSE),
                            "strategy", TRUE, Error(limText), limText)]
    /\ UNCHANGED <<sessionVars, hbVars, limText, tmVars>>

\* the finalize payload with the text as its logs
LimSend ==
    /\ lim.stage = "stored"
    /\ lim' = [lim EXCEPT
                 !.stage = "sent",
                 !.logs = FinishBuildInput(lim.rec, TRUE, limText, Nil).Logs]
    /\ UNCHANGED <<sessionVars, hbVars, limText, tmVars>>

NextLimit == LimTruncate \/ LimAgain \/ LimStore \/ LimSend

SpecLimit == InitLimit /\ [][NextLimit]_vars

-----------------------------------------------------------------------------
(* The timer methods on their own: ResetTimings and the six start/finish   *)
(* pairs are called on a record in any order, at any clock readings.       *)

\* no start call on any field since the record was made or reset
NoneOpen == [f \in TimingFields |-> <<>>]

InitTimers ==
    /\ SessionIdle
    /\ mode = [available |-> TRUE, nixpacks |-> FALSE]
    /\ HeartbeatIdle(FALSE)
    /\ LimIdle
    /\ tmr = [stage |-> "made",
              rec   |-> newBuild("build", FALSE),
              open  |-> NoneOpen,
              last  |-> [op |-> "newBuild", f |-> "none", now |-> 0],
              prev  |-> UnmeasuredTimings,
              n     |-> 0]

\* b.ResetTimings()
TmReset ==
    /\ tmr.stage # "none"
    /\ tmr.n < MaxCalls
    /\ tmr' = [stage |-> "called",
               rec   |-> ResetTimings(tmr.rec),
               open  |-> NoneOpen,
               last  |-> [op |-> "reset", f |-> "none", now |-> 0],
               prev  |-> tmr.rec.Timings,
               n     |-> tmr.n + 1]
    /\ UNCHANGED <<sessionVars, hbVars, limVars>>

\* b.XxxStart() for the field f, the clock reading now
TmStart(f, now) ==
    /\ tmr.stage # "none"
    /\ tmr.n < MaxCalls
    /\ tmr' = [stage |-> "called",
               rec   |-> TimerStart(tmr.rec, f, now),
               open  |-> [tmr.open EXCEPT ![f] = <<now>>],
               last  |-> [op |-> "start", f |-> f, now |-> now],
               prev  |-> tmr.rec.Timings,
               n     |-> tmr.n + 1]
    /\ UNCHANGED <<sessionVars, hbVars, limVars>>

\* b.XxxFinish() for the field f, the clock reading now
TmFinish(f, now) ==
    /\ tmr.stage # "none"
    /\ tmr.n < MaxCalls
    /\ tmr' = [stage |-> "called",
               rec   |-> TimerFinish(tmr.rec, f, now),
               open  |-> tmr.open,
               last  |-> [op |-> "finish", f |-> f, now |-> now],
               prev  |-> tmr.rec.Timings,
               n     |-> tmr.n + 1]
    /\ UNCHANGED <<sessionVars, hbVars, limVars>>

NextTimers ==
    \/ TmReset
    \/ \E f \in TimingFields, now \in 0..MaxTime : TmStart(f, now)
    \/ \E f \in TimingFields, now \in 0..MaxTime : TmFinish(f, now)

SpecTimers == InitTimers /\ [][NextTimers]_vars

-----------------------------------------------------------------------------
(* Vocabulary of the properties.                                           *)

\* Run result r declined: neither an image nor an error
Declined(r) == r.img = Nil /\ r.err = Nil

\* the session has returned to its caller
Returned == pc = "done"

\* the session has made its create-session call
Opened == createCalls # <<>>

\* the session is past the availability gate of its entry point
GatePassed ==
    \/ entry = "ResolveReference"
    \/ entry = "BuildImage" /\ mode.available

\* the number of strategies whose Run has returned and been processed
Processed ==
    IF pc \in {"finish", "append"} THEN Len(invoked) - 1 ELSE Len(invoked)

-----------------------------------------------------------------------------
\* C1: strategies are invoked one at a time in the declared candidate order,
\* and the strategy at position k is invoked only if every strategy at a
\* position before k returned neither an image nor an error; so none is
\* invoked after the first that returned an image or an error.
C1_DeclaredOrderUntilFirstResult ==
    /\ Len(invoked) <= Len(strategies)
    /\ \A k \in 1..Len(invoked) :
          /\ invoked[k].strategy = strategies[k]
          /\ \A j \in 1..(k - 1) : Declined(invoked[j].result)

\* a session that stopped at its second candidate, with a third one left
C1_Witness ==
    /\ Returned
    /\ Len(strategies) = 3
    /\ Len(invoked) = 2
    /\ Declined(invoked[1].result)
    /\ ~Declined(invoked[2].result)

-----------------------------------------------------------------------------
\* C2: a session that returns gives its caller either an image and no error,
\* or no image and an error; it gives an image iff some invoked strategy
\* returned an image with no error, and then it is that strategy's image.
C2_ImageXorError ==
    Returned =>
       /\ ret # Nil
       /\ \/ ret.img # Nil /\ ret.err = Nil
          \/ ret.img = Nil /\ ret.err # Nil
       /\ ret.img # Nil <=>
             \E k \in 1..Len(invoked) :
                invoked[k].result.img # Nil /\ invoked[k].result.err = Nil
       /\ ret.img # Nil =>
             \E k \in 1..Len(invoked) :
                /\ invoked[k].result.err = Nil
                /\ invoked[k].result.img = ret.img

\* a session whose last strategy returned both an image and an error
C2_Witness ==
    /\ Returned
    /\ invoked # <<>>
    /\ invoked[Len(invoked)].result.img # Nil
    /\ invoked[Len(invoked)].result.err # Nil
    /\ ret.img = Nil

-----------------------------------------------------------------------------
\* C3 as stated: every session, that is every invocation of ResolveReference
\* or BuildImage, makes exactly one finishBuild call, after the attempt
\* record of the last invoked strategy was appended and never before or
\* between attempts.
C3_Original ==
    /\ Returned => Len(finishCalls) = 1
    /\ Len(finishCalls) <= 1
    /\ finishCalls # <<>> =>
          /\ pc \in {"return", "done"}
          /\ Len(bld.StrategyResults) = Len(invoked)

\* C3 as amended: every session that passes the availability gate makes
\* exactly one finishBuild call, after the attempt record of the last invoked
\* strategy was appended and never before or between attempts; a BuildImage
\* session stopped by the gate makes none.
C3_OneFinalizeAfterLastAppend ==
    /\ (Returned /\ GatePassed) => Len(finishCalls) = 1
    /\ (Returned /\ ~GatePassed) => finishCalls = <<>>
    /\ Len(finishCalls) <= 1
    /\ finishCalls # <<>> =>
          /\ pc \in {"return", "done"}
          /\ Len(bld.StrategyResults) = Len(invoked)

\* a session that finalized after two attempts
C3_Witness ==
    /\ Returned
    /\ Len(finishCalls) = 1
    /\ Len(invoked) = 2
    /\ Len(bld.StrategyResults) = 2

-----------------------------------------------------------------------------
\* C4: finishBuild is told "failed" unless the session returns an image; the
\* status of the finalize payload is "completed" iff the session returns an
\* image and "failed" otherwise, and the payload carries the returned image's
\* id, tag and size exactly when it is "completed", and no image otherwise.
C4_StatusMatchesResult ==
    Returned =>
       /\ \A k \in 1..Len(finishCalls) :
             /\ ~finishCalls[k].failed <=> ret.img # Nil
             /\ finishCalls[k].img = ret.img
       /\ \A k \in 1..Len(gqlFinish) :
             LET p == gqlFinish[k].input IN
             /\ p.Status = "completed" <=> ret.img # Nil
             /\ p.Status = "failed" <=> ret.img = Nil
             /\ p.Status = "completed" =>
                   p.FinalImage = [Id |-> ret.img.ID, Tag |-> ret.img.Tag,
                                   SizeBytes |-> ret.img.Size]
             /\ p.Status = "failed" => p.FinalImage = Nil

\* a session that sent a "completed" payload with its image
C4_Witness ==
    /\ Returned
    /\ Len(gqlFinish) = 1
    /\ gqlFinish[1].input.Status = "completed"
    /\ gqlFinish[1].input.FinalImage # Nil

-----------------------------------------------------------------------------
\* C5: at every point the attempt list has one record per processed strategy
\* Run, the i-th record names the i-th invoked strategy, appended records are
\* never modified or removed, and at finalize the list is as long as the
\* number of strategies invoked.
C5_RecordsNow ==
    bld # Nil =>
       /\ Len(bld.StrategyResults) = Processed
       /\ \A i \in 1..Len(bld.StrategyResults) :
             bld.StrategyResults[i].Strategy = invoked[i].strategy
       /\ \A k \in 1..Len(gqlFinish) :
             /\ Len(gqlFinish[k].input.StrategiesAttempted) = Len(invoked)
             /\ gqlFinish[k].input.StrategiesAttempted = bld.StrategyResults

C5_RecordsKept ==
    (bld # Nil /\ bld' # Nil) =>
       /\ Len(bld'.StrategyResults) >= Len(bld.StrategyResults)
       /\ SubSeq(bld'.StrategyResults, 1, Len(bld.StrategyResults))
             = bld.StrategyResults

C5_OneRecordPerAttempt == []C5_RecordsNow /\ [][C5_RecordsKept]_vars

\* a finalized session that attempted fewer strategies than it had
C5_Witness ==
    /\ finishCalls # <<>>
    /\ Len(gqlFinish) = 1
    /\ Len(bld.StrategyResults) = 2
    /\ Len(strategies) = 3

-----------------------------------------------------------------------------
\* the last Run of the session
LastRun == invoked[Len(invoked)]

\* the session's last strategy returned an error (hard failure), and the
\* session has returned
HardFailed == Returned /\ invoked # <<>> /\ LastRun.result.err # Nil

\* C6: when a strategy returns an error, the session appends one record with
\* result "failed" carrying that error's text (in the stored form, capped by
\* limitLogs), calls finishBuild as failed with that error's text as the logs
\* and no image, returns that same error with a nil image, and invokes no
\* later strategy.
C6_HardFailureStopsSession ==
    /\ \A k \in 1..Len(invoked) :
          invoked[k].result.err # Nil => k = Len(invoked)
    /\ HardFailed =>
          LET e == LastRun.result.err
              n == Len(invoked)
          IN  /\ Len(bld.StrategyResults) = n
              /\ bld.StrategyResults[n].Strategy = LastRun.strategy
              /\ bld.StrategyResults[n].Result = "failed"
              /\ bld.StrategyResults[n].Error = limitLogs(e.msg)
              /\ TextLen(e.msg) <= logLimit =>
                    bld.StrategyResults[n].Error = e.msg
              /\ finishCalls =
                    <<[failed |-> TRUE, logs |-> e.msg, img |-> Nil]>>
              /\ \A k \in 1..Len(gqlFinish) :
                    /\ gqlFinish[k].input.Status = "failed"
                    /\ gqlFinish[k].input.Logs = limitLogs(e.msg)
              /\ ret = [img |-> Nil, err |-> e]

\* the first of three strategies returned an error and the session returned
C6_Witness ==
    /\ HardFailed
    /\ Len(invoked) = 1
    /\ Len(strategies) = 3
    /\ Len(gqlFinish) = 1
    /\ ret.err = LastRun.result.err

-----------------------------------------------------------------------------
\* C7: when a strategy returns neither image nor error, the session appends
\* one record with result "failed", no error text and the strategy's note
\* (capped by limitLogs), does not finalize and goes on to the next
\* candidate; if that one returns an image, the record list ends (failed,
\* success), the session finalizes as completed with that image and the
\* caller receives it.
C7_SoftFailureContinues ==
    \A k \in 1..Len(invoked) :
       Declined(invoked[k].result) =>
          /\ (bld # Nil /\ k <= Len(bld.StrategyResults)) =>
                bld.StrategyResults[k] =
                   [Strategy |-> invoked[k].strategy, Result |-> "failed",
                    Error |-> Empty, Note |-> limitLogs(invoked[k].result.note)]
          /\ (k < Len(strategies) /\ k = Len(invoked)) =>
                /\ finishCalls = <<>>
                /\ ~Returned
                /\ pc \in {"finish", "append", "loop", "start", "run"}
          /\ (Returned /\ k < Len(invoked)
                /\ invoked[k + 1].result.img # Nil
                /\ invoked[k + 1].result.err = Nil) =>
                LET image == invoked[k + 1].result.img IN
                /\ Len(bld.StrategyResults) = k + 1
                /\ bld.StrategyResults[k].Result = "failed"
                /\ bld.StrategyResults[k + 1].Result = "success"
                /\ finishCalls =
                      <<[failed |-> FALSE, logs |-> Empty, img |-> image]>>
                /\ \A j \in 1..Len(gqlFinish) :
                      /\ gqlFinish[j].input.Status = "completed"
                      /\ gqlFinish[j].input.FinalImage.Id = image.ID
                /\ ret = [img |-> image, err |-> Nil]

\* the first strategy declined with the note "no match", the second returned
\* an image, and the session returned
C7_Witness ==
    /\ Returned
    /\ Len(invoked) = 2
    /\ invoked[1].result = [img |-> Nil, note |-> Lit("no match", 8),
                            err |-> Nil]
    /\ invoked[2].result.img # Nil
    /\ invoked[2].result.err = Nil
    /\ invoked[2].result.note = Empty
    /\ Len(gqlFinish) = 1

-----------------------------------------------------------------------------
\* every candidate was invoked and declined, and the session has returned
Exhausted ==
    /\ Returned
    /\ Opened
    /\ Len(invoked) = Len(strategies)
    /\ \A k \in 1..Len(invoked) : Declined(invoked[k].result)

\* C8 as stated: if every candidate declines, the session finalizes as failed
\* with the message "no strategies resulted in an image" and no image, and
\* returns that message as the final error with a nil image.
C8_Original ==
    Exhausted =>
       /\ finishCalls =
             <<[failed |-> TRUE, logs |-> NoStrategiesMsg, img |-> Nil]>>
       /\ ret = [img |-> Nil, err |-> Error(NoStrategiesMsg)]

\* C8 as amended: if every candidate declines, the session finalizes as
\* failed with the message "no strategies resulted in an image" and no
\* image, and returns a nil image with the entry point's own final error:
\* "could not find image <ref>" from ResolveReference, "app does not have a
\* Dockerfile or buildpacks configured. ..." from BuildImage.
C8_ExhaustionFails ==
    Exhausted =>
       /\ finishCalls =
             <<[failed |-> TRUE, logs |-> NoStrategiesMsg, img |-> Nil]>>
       /\ \A k \in 1..Len(gqlFinish) :
             /\ gqlFinish[k].input.Status = "failed"
             /\ gqlFinish[k].input.Logs = NoStrategiesMsg
             /\ gqlFinish[k].input.FinalImage = Nil
       /\ ret.img = Nil
       /\ entry = "ResolveReference" => ret.err = CouldNotFindErr
       /\ entry = "BuildImage" => ret.err = NoDockerfileErr

\* a BuildImage session whose three candidates all declined
C8_Witness ==
    /\ Exhausted
    /\ entry = "BuildImage"
    /\ Len(invoked) = 3
    /\ Len(gqlFinish) = 1

-----------------------------------------------------------------------------
\* the remote create-session call of this session failed
CreateFailed == Opened /\ ~createCalls[1].ok

\* the result the strategy outcomes determine, for entry point e and Run
\* history h
Determined(e, h) ==
    IF h # <<>> /\ h[Len(h)].result.err # Nil
    THEN [img |-> Nil, err |-> h[Len(h)].result.err]
    ELSE IF h # <<>> /\ h[Len(h)].result.img # Nil
    THEN [img |-> h[Len(h)].result.img, err |-> Nil]
    ELSE [img |-> Nil,
          err |-> IF e = "ResolveReference" THEN CouldNotFindErr
                  ELSE NoDockerfileErr]

\* C9: if the remote create-session call fails, the session still invokes the
\* strategies in order and returns what they determine, finishBuild issues no
\* remote finalize call, and no missing record is dereferenced (no panic).
C9_CreateFailureIsAbsorbed ==
    /\ pc # "panic"
    /\ CreateFailed =>
          /\ bld # Nil
          /\ gqlFinish = <<>>
          /\ \A k \in 1..Len(invoked) : invoked[k].strategy = strategies[k]
          /\ Returned =>
                /\ invoked # <<>>
                /\ ~Declined(LastRun.result)
                      \/ Len(invoked) = Len(strategies)
                /\ Len(finishCalls) = 1
                /\ ret = Determined(entry, invoked)

\* a session whose create call failed and that returned its second
\* strategy's image
C9_Witness ==
    /\ CreateFailed
    /\ Returned
    /\ Len(invoked) = 2
    /\ ret.img # Nil
    /\ Len(finishCalls) = 1
    /\ gqlFinish = <<>>

-----------------------------------------------------------------------------
\* C10: of two sessions with the same request and the same strategy
\* outcomes, the second returns what the first returned, whether the
\* telemetry create call and the telemetry finalize call succeeded or failed
\* in either.
C10_ResultIgnoresTelemetry ==
    (first # Nil /\ Returned) => ret = first.ret

\* a pair of returned sessions: in the first the create and the finalize
\* call succeeded, in the second the create call failed
C10_Witness ==
    /\ first # Nil
    /\ Returned
    /\ first.createOk = [ok |-> TRUE]
    /\ first.finishOk = [ok |-> TRUE]
    /\ CreateFailed
    /\ ret.img # Nil

-----------------------------------------------------------------------------
\* C11: if the builder is unavailable when BuildImage is called, BuildImage
\* returns at once a nil image and the "unavailable" error: no create-session
\* call, no strategy Run, no attempt record and no finishBuild call is made.
C11_UnavailableFailsAtOnce ==
    (entry = "BuildImage" /\ ~mode.available) =>
       /\ pc = "done"
       /\ ret = [img |-> Nil,
                 err |-> Error(Lit(
                    "docker is unavailable to build the deployment image",
                    51))]
       /\ createCalls = <<>>
       /\ invoked = <<>>
       /\ bld = Nil
       /\ finishCalls = <<>>
       /\ gqlFinish = <<>>

\* a BuildImage call on an unavailable builder has returned
C11_Witness ==
    /\ entry = "BuildImage"
    /\ ~mode.available
    /\ Returned
    /\ ret.err # Nil

-----------------------------------------------------------------------------
\* the candidate list the entry point and the mode fix
FixedCandidates ==
    IF entry = "ResolveReference"
    THEN <<"localImageResolver", "remoteImageResolver">>
    ELSE IF mode.nixpacks
    THEN <<"nixpacksBuilder">>
    ELSE <<"buildpacksBuilder", "dockerfileBuilder", "builtinBuilder">>

C12_CandidatesNow ==
    GatePassed =>
       /\ strategies = FixedCandidates
       /\ strategies # <<>>

C12_CandidatesKept ==
    (pc # "idle" /\ pc' # "idle") => strategies' = strategies

\* C12: ResolveReference uses exactly [local lookup, remote lookup];
\* BuildImage uses exactly [nixpacks] in nixpacks mode and exactly
\* [buildpacks, dockerfile, builtin] otherwise; the list is never empty and
\* never changes during the session.
C12_FixedCandidateList == []C12_CandidatesNow /\ [][C12_CandidatesKept]_vars

\* a nixpacks-mode BuildImage session that ran its only candidate
C12_Witness ==
    /\ entry = "BuildImage"
    /\ mode.nixpacks
    /\ Returned
    /\ Len(invoked) = 1
    /\ invoked[1].strategy = "nixpacksBuilder"

-----------------------------------------------------------------------------
\* C13: the create-session call is made exactly once per session that passes
\* the availability gate, before any strategy is invoked, and carries the
\* names of all the candidates in candidate order, however many of them are
\* attempted afterwards.
C13_OneCreateWithAllCandidates ==
    /\ Len(createCalls) <= 1
    /\ invoked # <<>> => Len(createCalls) = 1
    /\ (GatePassed /\ pc \notin {"idle", "create"}) => Len(createCalls) = 1
    /\ ~GatePassed => createCalls = <<>>
    /\ \A k \in 1..Len(createCalls) :
          /\ createCalls[k].StrategiesAvailable = strategies
          /\ Len(createCalls[k].StrategiesAvailable) >= Len(invoked)

\* a session that created its record with three names and attempted one
C13_Witness ==
    /\ Returned
    /\ Len(createCalls) = 1
    /\ Len(createCalls[1].StrategiesAvailable) = 3
    /\ Len(invoked) = 1

-----------------------------------------------------------------------------
\* the text t has the one-run text r as one of its runs
HasRun(t, r) == \E i \in 1..Len(t) : t[i] = r[1]

\* C14: when BuildImage is called with an empty Tag, a non-empty tag built
\* from the application name and the image label is assigned before the
\* create-session call and before any strategy runs, and every Run of the
\* session sees that tag; a non-empty Tag reaches every Run unchanged.
C14_TagAssignedBeforeAttempts ==
    (entry = "BuildImage" /\ GatePassed) =>
       /\ optsTag # Empty
       /\ reqTag # Empty => optsTag = reqTag
       /\ reqTag = Empty =>
             /\ HasRun(optsTag, AppName)
             /\ HasRun(optsTag, ImageLabel)
       /\ \A k \in 1..Len(createCalls) : createCalls[k].Tag = optsTag
       /\ \A k \in 1..Len(invoked) : invoked[k].tag = optsTag

\* a BuildImage session called with an empty Tag that ran two strategies
C14_Witness ==
    /\ entry = "BuildImage"
    /\ reqTag = Empty
    /\ Returned
    /\ Len(invoked) = 2
    /\ invoked[1].tag = invoked[2].tag
    /\ invoked[1].tag # Empty

-----------------------------------------------------------------------------
\* C20: after ResetTimings, with no start or finish call in between, the six
\* elapsed fields are -1 and the start times are cleared, whatever the record
\* held before; a freshly created record is in the same state.
C20_ResetTimingsClears ==
    ((pc = "start") \/ (pc = "loop" /\ idx = 1)) =>
       /\ bld.Timings =
             [BuildAndPushMs |-> -1, BuilderInitMs |-> -1, BuildMs |-> -1,
              ContextBuildMs |-> -1, ImageBuildMs |-> -1, PushMs |-> -1]
       /\ bld.StartTimes =
             [BuildAndPushMs |-> 0, BuilderInitMs |-> 0, BuildMs |-> 0,
              ContextBuildMs |-> 0, ImageBuildMs |-> 0, PushMs |-> 0]

\* the record was reset for the second attempt, after a first attempt that
\* was timed and recorded
C20_Witness ==
    /\ pc = "start"
    /\ idx = 2
    /\ Len(bld.StrategyResults) = 1
    /\ bld.Timings.BuildAndPushMs = -1
    /\ bld.Timings.BuilderInitMs = -1

\* the pulses of the request history
Pulses == {i \in 1..Len(requests) : requests[i].kind = "pulse"}

\* the loop has left its select
LoopLeft == loopPc \in {"deferred", "exited"}

\* the first probe has been answered, and the answer was a failure
FirstProbeFailed ==
    /\ Len(requests) >= 1
    /\ requests[1].kind = "first"
    /\ \/ requests[1].resp.kind = "error"
       \/ requests[1].resp.status < 200
       \/ requests[1].resp.status >= 300

\* C15: however many tasks invoke Stop, one after another or at once (the
\* callers, the maximum-lifetime timer, the loop's deferred call), the stop
\* channel is closed at most once and exactly once as soon as one invocation
\* on a non-nil signal has completed, and no invocation panics.
C15_StopClosesOnce ==
    /\ \A t \in Tasks : stopPc[t] # "panic"
    /\ sig # Nil =>
          /\ sig.closes <= 1
          /\ \A t \in Tasks :
                (stopPc[t] = "done" /\ ~NilReceiver(t)) => sig.closes = 1

C15_Witness ==
    /\ sig # Nil
    /\ sig.closes = 1
    /\ sig.closedBy = "loop"
    /\ stopPc["loop"] = "done"
    /\ stopPc["timer"] = "locked"
    /\ stopPc["caller1"] = "slow"

\* C16: a loop that has left its select did so because the context was
\* cancelled or because the channel was closed by a caller or by the timer.
C16_OnlyThreeCauses ==
    LoopLeft => (cancelled \/ sig.closedBy \in Callers \cup {"timer"})

\* C16: a started heartbeat loop eventually ends, and it ends only on a stop
\* request, on the cancellation of its context or on the expiry of the
\* maximum-lifetime timer; the timer alone is enough to end it.
C16_LoopTerminates ==
    /\ (loopPc = "select") ~> (loopPc = "exited")
    /\ []C16_OnlyThreeCauses

C16_Witness ==
    /\ loopPc = "exited"
    /\ ~cancelled
    /\ sig.closedBy = "timer"
    /\ \A c \in Callers : stopPc[c] = "idle"

\* C17: on a remote builder, a first probe answered 404 makes StartHeartbeat
\* return a nil handle and a nil error; a first probe that fails otherwise
\* makes it return a nil handle and that error; either way no confirmation
\* probe is sent and no loop, signal or timer is started.
C17_FirstProbeDecides ==
    (remote /\ hbPc = "returned" /\ FirstProbeFailed) =>
       /\ hbRet.handle = Nil
       /\ IF requests[1].resp.kind = "error"
          THEN hbRet.err = [type |-> "transport"]
          ELSE IF requests[1].resp.status = 404
          THEN hbRet.err = Nil
          ELSE hbRet.err = [type |-> "httpError",
                            StatusCode |-> requests[1].resp.status]
       /\ Len(requests) = 1
       /\ loopPc = "none"
       /\ sig = Nil
       /\ timer = "none"

C17_Witness ==
    /\ remote
    /\ hbPc = "returned"
    /\ FirstProbeFailed
    /\ requests[1].resp.kind = "http"
    /\ requests[1].resp.status = 500
    /\ hbRet.err # Nil

\* C18 as stated: no pulse is issued once the context is cancelled.
C18_Original == \A i \in Pulses : ~requests[i].ctxDone

\* C18: a pulse issued after the cancellation fails on the cancelled context:
\* none is delivered to the builder.
C18_NoPulseDeliveredAfterCancel ==
    \A i \in Pulses : requests[i].ctxDone => requests[i].failed

C18_Witness ==
    /\ LoopLeft
    /\ cancelled
    /\ \E i \in Pulses : requests[i].ctxDone /\ requests[i].failed
    /\ \E i \in Pulses : ~requests[i].ctxDone /\ ~requests[i].failed

\* x is a suffix of t (both without empty runs)
IsSuffixOf(x, t) ==
    \/ x = <<>>
    \/ \E k \in 1..Len(t) :
          /\ Len(x) = Len(t) - k + 1
          /\ x[1].c = t[k].c
          /\ 1 <= x[1].n
          /\ x[1].n <= t[k].n
          /\ \A j \in 2..Len(x) : x[j] = t[k + j - 1]

\* x is t if t has at most logLimit bytes, and the last logLimit bytes of t
\* otherwise
Truncated(x, t) ==
    /\ IsSuffixOf(x, t)
    /\ TextLen(x) = IF TextLen(t) <= logLimit THEN TextLen(t) ELSE logLimit
    /\ TextLen(t) <= logLimit => x = t

Reached(stages) == lim.stage \in stages

\* C19: limitLogs returns a text of at most 4096 bytes unchanged and the
\* trailing 4096 bytes of a longer one; its result never exceeds 4096 bytes,
\* is a suffix of the input, and is not changed by a second truncation; the
\* error and note of an attempt record and the logs of the finalize payload
\* are that result.
C19_LimitLogsTruncates ==
    /\ Reached({"limited", "twice", "stored", "sent"}) =>
          /\ Truncated(lim.out, limText)
          /\ TextLen(lim.out) <= logLimit
    /\ Reached({"twice", "stored", "sent"}) => lim.again = lim.out
    /\ Reached({"stored", "sent"}) =>
          /\ Len(lim.rec.StrategyResults) = 1
          /\ Truncated(lim.rec.StrategyResults[1].Error, limText)
          /\ Truncated(lim.rec.StrategyResults[1].Note, limText)
    /\ Reached({"sent"}) => Truncated(lim.logs, limText)

C19_Witness ==
    /\ lim.stage = "sent"
    /\ TextLen(limText) > logLimit
    /\ TextLen(lim.logs) = logLimit
    /\ Len(lim.logs) = 2
    /\ lim.logs[1].n < limText[1].n
    /\ lim.again = lim.out
    /\ lim.rec.StrategyResults[1].Error = lim.logs

\* the last timer call finished field f, which was started after the last
\* reset, at a reading not before the reading of its start
FinishedPair(f) ==
    /\ tmr.stage = "called"
    /\ tmr.last.op = "finish"
    /\ tmr.last.f = f
    /\ tmr.open[f] # <<>>
    /\ tmr.last.now >= tmr.open[f][1]

\* C21: for each of the six fields, a finish call at reading t1 after a start
\* call at reading t0 <= t1, with no reset in between, sets the field's
\* elapsed value to t1 - t0 and leaves the other five elapsed values as they
\* were.
C21_ElapsedIsDifference ==
    \A f \in {"BuildAndPushMs", "BuilderInitMs", "BuildMs",
              "ContextBuildMs", "ImageBuildMs", "PushMs"} :
       FinishedPair(f) =>
          /\ tmr.rec.Timings[f] = tmr.last.now - tmr.open[f][1]
          /\ tmr.rec.Timings[f] >= 0
          /\ \A g \in DOMAIN tmr.rec.Timings \ {f} :
                tmr.rec.Timings[g] = tmr.prev[g]

C21_Witness ==
    /\ FinishedPair("PushMs")
    /\ tmr.open["PushMs"] = <<1>>
    /\ tmr.last.now = 2
    /\ tmr.rec.Timings["PushMs"] = 1
    /\ tmr.rec.Timings["BuildMs"] = 2

\* the telemetry calls of one attempt, in the order of the loop body, and
\* the finalize call that can follow the last attempt
AttemptProtocol ==
    <<"ResetTimings", "BuildAndPushStart", "Run", "BuildAndPushFinish",
      "FinishStrategy", "finishBuild">>

\* how many of the calls of the current attempt are the call named c
CallsOf(c) == Cardinality({i \in 1..Len(att.calls) : att.calls[i] = c})

\* C25: the calls of every attempt are made in the order ResetTimings,
\* build-and-push start, Run, build-and-push finish, append, each once; every
\* Run has exactly one appended record once its attempt is over; and a
\* finalize call comes only after the finish and the append of the last
\* attempt, on the error, image and declined paths alike.
C25_AttemptProtocol ==
    /\ Len(att.calls) <= Len(AttemptProtocol)
    /\ \A i \in 1..Len(att.calls) : att.calls[i] = AttemptProtocol[i]
    /\ bld # Nil =>
          Len(bld.StrategyResults) + (CallsOf("Run") - CallsOf("FinishStrategy"))
             = Len(invoked)
    /\ finishCalls # <<>> =>
          /\ att.calls = AttemptProtocol
          /\ Len(bld.StrategyResults) = Len(invoked)
    /\ pc \in {"start", "run", "finish", "append"} =>
          (att.calls # <<>> /\ att.calls[1] = "ResetTimings")

C25_Witness ==
    /\ att.calls = AttemptProtocol
    /\ branch = "exhausted"
    /\ Len(bld.StrategyResults) = 3
    /\ pc = "done"

\* the Timings of the finalize payload
PayloadTimings == gqlFinish[1].input.Timings

SubPhaseFields ==
    {"BuilderInitMs", "BuildMs", "ContextBuildMs", "ImageBuildMs", "PushMs"}

\* C26 as stated: in the payload every sub-phase field not finished during
\* the last attempt is -1, and the build-and-push field is never -1.
C26_Original ==
    gqlFinish # <<>> =>
       /\ \A f \in SubPhaseFields \ att.phases : PayloadTimings[f] = -1
       /\ PayloadTimings.BuildAndPushMs # -1

\* C26: in the payload every sub-phase field not finished during the last
\* attempt is -1, whatever the earlier attempts measured, and the
\* build-and-push field is the finish reading of the last attempt minus its
\* start reading, which is not -1 when the clock did not go back between the
\* two readings.
C26_TimingsOfLastAttemptOnly ==
    gqlFinish # <<>> =>
       /\ \A f \in SubPhaseFields \ att.phases : PayloadTimings[f] = -1
       /\ Len(att.reads) = 2
       /\ PayloadTimings.BuildAndPushMs = att.reads[2] - att.reads[1]
       /\ att.reads[2] >= att.reads[1] => PayloadTimings.BuildAndPushMs >= 0

C26_Witness ==
    /\ gqlFinish # <<>>
    /\ att.earlier
    /\ att.phases = {}
    /\ \A f \in SubPhaseFields : PayloadTimings[f] = -1
    /\ att.reads = <<0, 1>>
    /\ PayloadTimings.BuildAndPushMs = 1

\* the record of a session whose create call failed
Degenerate == bld # Nil /\ bld.CreateApiFailed

\* C27 as stated: on a degenerate record no telemetry call changes the
\* record and none issues a remote call.
C27_Original ==
    Degenerate =>
       /\ bld = newBuild("", TRUE)
       /\ gqlFinish = <<>>

\* the finalize call leaves the record as it is
C27_FinalizeKeepsRecord == pc = "finalize" => bld' = bld

\* C27: after a failed create call no remote call follows: the finalize call
\* returns without a remote call and without changing the record, which
\* still holds the attempt list and the timings the other telemetry calls of
\* the session have written into it.
C27_DegenerateSkipsRemoteFinalize ==
    /\ [](Degenerate =>
            /\ gqlFinish = <<>>
            /\ Len(createCalls) = 1
            /\ finishCalls # <<>> =>
                  /\ Len(finishCalls) = 1
                  /\ Len(bld.StrategyResults) = Len(invoked)
                  /\ bld.Timings.BuildAndPushMs = att.reads[2] - att.reads[1])
    /\ [][C27_FinalizeKeepsRecord]_vars

C27_Witness ==
    /\ Degenerate
    /\ pc = "done"
    /\ Len(finishCalls) = 1
    /\ gqlFinish = <<>>
    /\ Len(bld.StrategyResults) = 2
    /\ bld.Timings.BuildAndPushMs = 1

\* the attempt list rs: records "failed" without error text, then at most
\* one last record that is "success" without error text or "failed" with
\* error text
AttemptListShape(rs) ==
    \A i \in 1..Len(rs) :
       /\ rs[i].Result \in {"failed", "success"}
       /\ rs[i].Result = "success" => rs[i].Error = <<>>
       /\ i < Len(rs) => (rs[i].Result = "failed" /\ rs[i].Error = <<>>)

\* the last record of rs is a success or has error text
TerminalRecord(rs) ==
    /\ rs # <<>>
    /\ \/ rs[Len(rs)].Result = "success"
       \/ rs[Len(rs)].Error # <<>>

C28_NoAppendAfterTerminal ==
    (bld # Nil /\ TerminalRecord(bld.StrategyResults)) =>
       bld'.StrategyResults = bld.StrategyResults

\* C28: in every state of a session the attempt list is a run of "failed"
\* records without error text, followed by at most one record that is a
\* success without error text or a failure with error text; once that record
\* is there, no record is appended.
C28_AttemptListShape ==
    /\ [](bld # Nil => AttemptListShape(bld.StrategyResults))
    /\ [][C28_NoAppendAfterTerminal]_vars

C28_Witness ==
    /\ pc = "done"
    /\ bld # Nil
    /\ Len(bld.StrategyResults) = 3
    /\ bld.StrategyResults[1].Result = "failed"
    /\ bld.StrategyResults[2].Error = <<>>
    /\ bld.StrategyResults[3].Result = "failed"
    /\ bld.StrategyResults[3].Error # <<>>

\* the first probe has been answered, and the answer was a success
FirstProbeSucceeded ==
    /\ Len(requests) >= 1
    /\ requests[1].kind = "first"
    /\ requests[1].resp.kind = "http"
    /\ 200 <= requests[1].resp.status
    /\ requests[1].resp.status < 300

\* the confirmation probes of the request history
Confirms == {i \in 1..Len(requests) : requests[i].kind = "confirm"}

\* the loop, the signal and the timer have not been started
NothingStarted == loopPc = "none" /\ sig = Nil /\ timer = "none"

\* C22: after a successful first probe StartHeartbeat has sent exactly one
\* confirmation probe when it returns; it returns a non-nil handle with the
\* loop started if that probe answered 202, and otherwise (transport error,
\* any other status, other 2xx included) a nil handle and a nil error with
\* nothing started; nothing is started before the confirmation is answered.
C22_ConfirmationDecides ==
    /\ hbPc \in {"idle", "probe1", "probe2"} => (NothingStarted /\ Confirms = {})
    /\ (hbPc = "returned" /\ FirstProbeSucceeded) =>
          /\ Confirms = {2}
          /\ hbRet.err = Nil
          /\ IF requests[2].resp.kind = "http" /\ requests[2].resp.status = 202
             THEN hbRet.handle # Nil /\ loopPc # "none" /\ sig # Nil
             ELSE hbRet.handle = Nil /\ NothingStarted

C22_Witness ==
    /\ hbPc = "returned"
    /\ FirstProbeSucceeded
    /\ Confirms = {2}
    /\ requests[2].resp.kind = "http"
    /\ requests[2].resp.status = 200
    /\ hbRet.handle = Nil
    /\ NothingStarted

\* C23: on a builder that is not remote StartHeartbeat returns a nil handle
\* and a nil error, no liveness request is issued and no loop, signal or
\* timer is started; any of those exists only on a remote builder.
C23_InertWhenLocal ==
    /\ ~remote =>
          /\ requests = <<>>
          /\ NothingStarted
          /\ hbPc \in {"idle", "returned"}
          /\ hbPc = "returned" => hbRet = [handle |-> Nil, err |-> Nil]
    /\ (requests # <<>> \/ ~NothingStarted \/ hbPc \in {"probe1", "probe2"})
          => remote

C23_Witness ==
    /\ ~remote
    /\ hbPc = "returned"
    /\ hbRet = [handle |-> Nil, err |-> Nil]
    /\ requests = <<>>
    /\ \A c \in Callers : stopPc[c] = "done"

\* the step issues a pulse, and the pulse fails
FailedPulseStep ==
    /\ Len(requests') = Len(requests) + 1
    /\ requests'[Len(requests')].kind = "pulse"
    /\ requests'[Len(requests')].failed

\* C24: a step in which a pulse fails leaves the loop at its select, the
\* stop signal as it was and every Stop call where it was; and a loop at its
\* select with a tick waiting can issue the pulse of that tick.
C24_FailedPulseKeepsLoop ==
    /\ [][FailedPulseStep =>
             /\ loopPc' = "select"
             /\ loopPc = "select"
             /\ sig' = sig
             /\ stopPc' = stopPc
             /\ timer' = timer]_vars
    /\ []((loopPc = "select" /\ tickPending) => ENABLED PulseSend)

C24_Witness ==
    /\ loopPc = "select"
    /\ ~cancelled
    /\ sig.closes = 0
    /\ Len(requests) = 4
    /\ requests[3].kind = "pulse" /\ requests[3].failed
    /\ requests[4].kind = "pulse" /\ requests[4].failed

\* the channel of the signal: how often and by whom it was closed
Channel(s) == <<s.closes, s.closedBy, s.onceDone>>

\* after the goroutine has ended: no request, the channel stays as it is, and
\* a Stop call that begins returns at once
C29_AfterExit ==
    loopPc = "exited" =>
       /\ requests' = requests
       /\ loopPc' = "exited"
       /\ Channel(sig') = Channel(sig)
       /\ \A t \in Tasks :
             (stopPc[t] = "idle" /\ stopPc'[t] # "idle") => stopPc'[t] = "done"

\* C29: once the heartbeat goroutine has ended, for whatever reason, the
\* stop channel is closed, exactly once; from then on no pulse is issued, and
\* the timer's Stop and any caller's Stop leave the channel as it is.
C29_ExitClosesSignal ==
    /\ [](loopPc = "exited" =>
            /\ sig.closes = 1
            /\ sig.onceDone
            /\ stopPc["loop"] = "done")
    /\ [][C29_AfterExit]_vars

C29_Witness ==
    /\ loopPc = "exited"
    /\ cancelled
    /\ sig.closedBy = "loop"
    /\ sig.closes = 1
    /\ timer = "fired"
    /\ stopPc["timer"] = "done"
    /\ stopPc["caller1"] = "done"

====
